---- MODULE Spec2Model ----
(***************************************************************************)
(* The timer/session state machine of the main process                     *)
(* (src/src/main/index.ts): the module-level timer variables, the IPC      *)
(* handlers start-timer, stop-timer, toggle-timer, toggle-pause-timer and  *)
(* get-timer-state, the tray menu's Stop item, the one-second tick, and    *)
(* stopTimerLogic with its file append, which is suspended at its awaits   *)
(* while other handlers run.                                               *)
(***************************************************************************)
EXTENDS Integers, Sequences, FiniteSets, TLC

VARIABLES
    now,                 \* Date.now(), epoch ms
    timerInterval,       \* TRUE iff the handle timerInterval is non-null
    timerStart,          \* NULL or <<epoch ms>>
    timerDescription,
    timerDestination,    \* "Inbox", "Daily Note" or NullDest
    timerPaused,
    timerPausedElapsed,
    tray,                \* TRUE iff the Tray object exists
    menuEnabled,         \* the context menu's item is 'Stop Timer', enabled
    liveIntervals,       \* setInterval timers scheduled and not cleared
    pending,             \* stopTimerLogic calls suspended at an await
    sess,                \* history: the current session since it began
    last                 \* history: the last step, what it returned and emitted

vars == <<now, timerInterval, timerStart, timerDescription, timerDestination,
          timerPaused, timerPausedElapsed, tray, menuEnabled,
          liveIntervals, pending, sess, last>>

timerVars == <<timerInterval, timerStart, timerDescription, timerDestination,
               timerPaused, timerPausedElapsed, liveIntervals>>

-----------------------------------------------------------------------------
(* Bounds and constants *)

\* the clock runs for MaxNow steps of half a tick
MaxNow == 3
\* stopTimerLogic calls that may be suspended at once
MaxPending == 1
\* clock steps a suspended stopTimerLogic may wait for its file operations
\* (other handlers run while it waits, whatever the clock does)
MaxIoDelay == 0
\* the period of setInterval(updateTrayTitle, 1000), in ms
TickMs == 1000

NULL == <<>>
Some(t) == <<t>>
\* the number a nullable number stands for in arithmetic and in new Date(x):
\* null counts as 0
Val(x) == IF x = NULL THEN 0 ELSE x[1]

NullDest == "null"
Destinations == {"Inbox", "Daily Note"}
DestArgs == Destinations \cup {NullDest}
Descriptions == {"", "note"}

\* the clock advances in steps of half a tick
StepMs == TickMs \div 2

-----------------------------------------------------------------------------
(* Settings, paths and the Output Resolver *)

DefaultOutputs ==
    [inbox |-> <<"Inbox", "Inbox.md">>,
     daily |-> <<"Calendar", "yyyy-mm-dd.md">>]

getInitialSettings == [vaultPath |-> <<>>, outputs |-> DefaultOutputs]

VaultRoot == <<"vault">>

SettingsSet ==
    { getInitialSettings,
      [vaultPath |-> VaultRoot, outputs |-> DefaultOutputs],
      [vaultPath |-> VaultRoot,
       outputs |-> [inbox |-> <<"..", "Inbox.md">>,
                    daily |-> <<"..", "yyyy-mm-dd.md">>]] }

\* the local calendar fields of an instant, to the second
\* (getFullYear/getMonth/getDate as a day number, getHours, getMinutes, getSeconds)
FormatInstant(t) ==
    LET s == t \div 1000
    IN  [date |-> s \div 86400,
         hh   |-> (s % 86400) \div 3600,
         mm   |-> (s % 3600) \div 60,
         ss   |-> s % 60]

expandPathPlaceholders(template, t) ==
    [i \in 1..Len(template) |->
        IF template[i] = "yyyy-mm-dd.md"
        THEN <<"date", FormatInstant(t).date, ".md">>
        ELSE <<template[i]>>]

RECURSIVE ResolveFrom(_, _, _)
\* path.resolve: ".." drops the last segment, any other segment is appended
ResolveFrom(acc, rel, i) ==
    IF i > Len(rel) THEN acc
    ELSE IF rel[i] = <<"..">>
         THEN ResolveFrom(IF Len(acc) = 0 THEN acc ELSE SubSeq(acc, 1, Len(acc) - 1),
                          rel, i + 1)
         ELSE ResolveFrom(Append(acc, rel[i]), rel, i + 1)

IsPrefix(p, q) == Len(p) <= Len(q) /\ SubSeq(q, 1, Len(p)) = p

\* the lexical check of resolveVaultFilePath: [ok, abs]
resolveVaultFilePath(vaultPath, relativePath) ==
    LET abs == ResolveFrom([i \in 1..Len(vaultPath) |-> <<vaultPath[i]>>],
                           relativePath, 1)
        vaultResolved == [i \in 1..Len(vaultPath) |-> <<vaultPath[i]>>]
    IN  [ok |-> IsPrefix(vaultResolved, abs), abs |-> abs]

getOutputById(settings, id) == settings.outputs[id]

\* mutant: every record goes to the inbox output
OutputIdOfAlwaysInbox(destination) == "inbox"

OutputIdOf(destination) == IF destination = "Inbox" THEN "inbox" ELSE "daily"

-----------------------------------------------------------------------------
(* The phase, as get-timer-state reports it *)

Phase ==
    IF timerStart # NULL THEN "Running"
    ELSE IF timerPaused THEN "Paused"
    ELSE "Idle"

PhaseOf(start, paused) ==
    IF start # NULL THEN "Running"
    ELSE IF paused THEN "Paused"
    ELSE "Idle"

\* total elapsed of the session: what get-timer-state computes
Elapsed ==
    IF timerStart # NULL THEN now - Val(timerStart)
    ELSE IF timerPaused THEN timerPausedElapsed
    ELSE 0

-----------------------------------------------------------------------------
(* The Indicator Publisher *)

RECURSIVE Digits(_)
\* String(n): the decimal digits of n
Digits(n) == IF n < 10 THEN <<n>> ELSE Append(Digits(n \div 10), n % 10)

\* padStart(2, '0')
padStart2(digits) == IF Len(digits) < 2 THEN <<0>> \o digits ELSE digits

\* mutant: the fields are not padded
formatElapsedUnpadded(ms) ==
    LET totalSeconds == ms \div 1000
        hours == totalSeconds \div 3600
        minutes == (totalSeconds % 3600) \div 60
        seconds == totalSeconds % 60
    IN  IF hours > 0
        THEN <<Digits(hours), Digits(minutes), Digits(seconds)>>
        ELSE <<Digits(minutes), Digits(seconds)>>

\* the fields of the time string, which are joined by ":"
formatElapsed(ms) ==
    LET totalSeconds == ms \div 1000
        hours == totalSeconds \div 3600
        minutes == (totalSeconds % 3600) \div 60
        seconds == totalSeconds % 60
    IN  IF hours > 0
        THEN <<padStart2(Digits(hours)), padStart2(Digits(minutes)),
               padStart2(Digits(seconds))>>
        ELSE <<padStart2(Digits(minutes)), padStart2(Digits(seconds))>>

NoTitle == [time |-> <<>>, description |-> "", paused |-> FALSE]

\* mutant: the title is set but nothing is sent to the windows
updateTrayTitleTrayOnly(hasTray, start, desc, paused, pausedElapsed) ==
    IF ~hasTray \/ (start = NULL /\ ~paused)
    THEN [titles |-> <<>>, sent |-> <<>>]
    ELSE LET elapsed == IF start # NULL THEN now - Val(start) ELSE pausedElapsed
         IN  [titles |-> << [time |-> formatElapsed(elapsed),
                             description |-> desc, paused |-> paused] >>,
              sent   |-> <<>>]

\* updateTrayTitle on the given values of the timer variables:
\* [titles, sent], the titles it sets on the tray and the snapshots it
\* broadcasts. Both calls sit in a try/catch: a failing call changes nothing.
updateTrayTitle(hasTray, start, desc, paused, pausedElapsed) ==
    IF ~hasTray \/ (start = NULL /\ ~paused)
    THEN [titles |-> <<>>, sent |-> <<>>]
    ELSE LET elapsed == IF start # NULL THEN now - Val(start) ELSE pausedElapsed
         IN  [titles |-> << [time |-> formatElapsed(elapsed),
                             description |-> desc, paused |-> paused] >>,
              sent   |-> << [running |-> TRUE, elapsed |-> elapsed,
                             description |-> desc, paused |-> paused] >>]

-----------------------------------------------------------------------------
(* History *)

\* the current session: how and when it began (kept until its first pause),
\* the time it has spent Running, and whether time has passed while it was
\* Paused
NoSess == [start |-> NULL, runSum |-> 0, rested |-> FALSE]

NewSess(op, destination, threw) ==
    [start |-> Some([t1 |-> now, by |-> op, destination |-> destination,
                     threw |-> threw]),
     runSum |-> 0, rested |-> FALSE]

\* the session history ends when the phase becomes Idle
SessAfter(s, start, paused) == IF PhaseOf(start, paused) = "Idle" THEN NoSess ELSE s

NoRet == [none |-> TRUE]

\* the record of a step: the operation, the phase it found, what it returned
\* (NoRet: nothing, or not yet), the Session Recorder invocations it made, the
\* tray titles it set, the snapshots it broadcast, the lines it appended,
\* whether it threw to its caller, the recording error it caught, whether a
\* line it appended went, through a symbolic link, to a directory outside the
\* vault, and, for an operation that may end the session, the history of the
\* session it found
EndOps == {"stop", "tray-stop"}

Quiet(op, ret) ==
    [op |-> op, pre |-> Phase, ret |-> ret, recs |-> <<>>, titles |-> <<>>,
     sent |-> <<>>, appended |-> <<>>, threw |-> FALSE, err |-> "none",
     escaped |-> FALSE,
     of |-> IF op \in EndOps THEN sess ELSE NoSess]

Threw(op) == [Quiet(op, NoRet) EXCEPT !.threw = TRUE]

Init ==
    /\ now = 0
    /\ timerInterval = FALSE
    /\ timerStart = NULL
    /\ timerDescription = ""
    /\ timerDestination = NullDest
    /\ timerPaused = FALSE
    /\ timerPausedElapsed = 0
    /\ tray \in BOOLEAN          \* ensureTray at startup, in a try/catch
    /\ menuEnabled = FALSE
    /\ liveIntervals = 0
    /\ pending = <<>>
    /\ sess = NoSess
    /\ last = Quiet("init", NoRet)

-----------------------------------------------------------------------------
(* ensureTray and updateTrayMenu *)

\* if (timerInterval) { clearInterval(timerInterval); timerInterval = null }:
\* the intervals left scheduled
clearInterval(interval, live) == IF interval THEN live - 1 ELSE live

\* ensureTray: nothing to do when the tray exists; otherwise new Tray(img)
\* succeeds (trayOk) or throws
TrayAfterEnsure(trayOk) == tray \/ trayOk
EnsureThrows(trayOk) == ~tray /\ ~trayOk
TrayChoices == IF tray THEN {TRUE} ELSE BOOLEAN

\* updateTrayMenu: the item is enabled iff timerInterval is non-null
updateTrayMenu(hasTray, interval) == IF hasTray THEN interval ELSE menuEnabled

\* mutant: nothing is sent to the windows
BroadcastNothing(snapshot) == <<>>

\* the broadcast of one snapshot to all windows, in its try/catch
Broadcast(snapshot) == <<snapshot>>

\* tray.setTitle(''), guarded by if (tray), in its try/catch
ClearTitle == IF tray THEN <<NoTitle>> ELSE <<>>

-----------------------------------------------------------------------------
(* ipcMain.handle('start-timer') *)

\* mutant: the resume keeps the accumulated elapsed
ResetPausedElapsedKept(pausedElapsed) == pausedElapsed

\* the resume: timerPausedElapsed = 0
ResetPausedElapsed(pausedElapsed) == 0

\* mutant: the resume restarts the clock and forgets the accumulated elapsed
ResumeStartFresh(pausedElapsed) == Some(now)

\* mutant: the resume adds the accumulated elapsed to the clock
ResumeStartAhead(pausedElapsed) == Some(now + pausedElapsed)

\* the resume: timerStart = Date.now() - timerPausedElapsed
ResumeStart(pausedElapsed) == Some(now - pausedElapsed)

\* mutant: start-timer has no guard
AlreadyRunningNever == FALSE

\* if (timerInterval) { already running }
AlreadyRunning == timerInterval

\* mutant: the description argument is ignored
StartDescriptionKept(description) == timerDescription

\* timerDescription = description || ''
StartDescription(description) == description

\* mutant: an omitted destination overwrites the one set before
DestinationOverwritten(destination) == destination

\* if (destination) timerDestination = destination
DestinationAfter(destination) ==
    IF destination # NullDest THEN destination ELSE timerDestination

StartTimer(description, destination, trayOk) ==
    IF AlreadyRunning
    THEN /\ last' = Quiet("start", [running |-> TRUE])
         /\ UNCHANGED <<now, timerVars, tray, menuEnabled, pending, sess>>
    ELSE LET dest  == DestinationAfter(destination)
             start == IF timerPaused THEN ResumeStart(timerPausedElapsed) ELSE Some(now)
             threw == EnsureThrows(trayOk)
             desc  == StartDescription(description)
             pub   == updateTrayTitle(TRUE, start, desc, FALSE,
                                      IF timerPaused THEN 0 ELSE timerPausedElapsed)
         IN  /\ timerDescription' = desc
             /\ timerDestination' = dest
             /\ timerStart' = start
             /\ timerPaused' = FALSE
             /\ timerPausedElapsed' = IF timerPaused THEN ResetPausedElapsed(timerPausedElapsed)
                                     ELSE timerPausedElapsed
             /\ tray' = TrayAfterEnsure(trayOk)
             \* ensureTray builds the menu of a tray it creates, before the interval is set
             /\ menuEnabled' = IF ~tray /\ trayOk THEN updateTrayMenu(TRUE, timerInterval)
                               ELSE menuEnabled
             /\ timerInterval' = ~threw
             /\ liveIntervals' = IF threw THEN liveIntervals ELSE liveIntervals + 1
             /\ sess' = IF timerPaused THEN sess
                        ELSE NewSess("start", destination, threw)
             /\ last' = IF threw THEN Threw("start")
                        ELSE [Quiet("start", [running |-> TRUE])
                                EXCEPT !.titles = pub.titles, !.sent = pub.sent]
             /\ UNCHANGED <<now, pending>>

-----------------------------------------------------------------------------
(* stopTimerLogic, and its callers: ipcMain.handle('stop-timer') and the     *)
(* tray menu's click handler                                                *)

RecordLine(start, end) == [start |-> FormatInstant(start), end |-> FormatInstant(end)]

\* mutant: the guard forgets hadStart
ShouldRecordAnyPhase(start, destination) == destination # NullDest

\* mutant: the guard forgets the destination
ShouldRecordAnyDestination(start, destination) == start # NULL

\* hadStart && recordedDestination && recordedStart !== null
ShouldRecord(start, destination) == start # NULL /\ destination # NullDest

\* mutant: no try/catch around the append
RecordErrorRethrown(err) == TRUE

\* the try/catch around the append: does an error of the recording reach
\* the caller of stopTimerLogic
RecordErrorPropagates(err) == FALSE

\* mutant: timerStart is still set when stopTimerLogic awaits
ResetStartLate(start) == start

\* timerStart = null, after recordedStart was taken and before the first await
ResetStart(start) == NULL

\* what stop-timer returns
StopReturn == [running |-> FALSE]

\* the synchronous part of stopTimerLogic, up to its first await or, when
\* nothing is awaited, to its end. paused and pausedElapsed are the values
\* the caller left in timerPaused and timerPausedElapsed; settings is the
\* value of the settings variable, which update-settings may have set to any
\* configuration by now.
stopTimerLogic(op, paused, pausedElapsed, settings) ==
    LET recordedDestination == timerDestination
        records == ShouldRecord(timerStart, recordedDestination)
        rec  == [destination |-> recordedDestination,
                 start |-> Val(timerStart), end |-> now]
        out  == getOutputById(settings, OutputIdOf(recordedDestination))
        res  == resolveVaultFilePath(settings.vaultPath,
                                     expandPathPlaceholders(out, now))
        err  == IF ~records THEN "none"
                ELSE IF settings.vaultPath = <<>> THEN "NoVaultConfigured"
                ELSE IF ~res.ok THEN "PathOutsideVault"
                ELSE "none"
        suspends == records /\ err = "none"
        threw == RecordErrorPropagates(err) /\ err # "none"
        step == [Quiet(op, NoRet) EXCEPT !.recs = IF records THEN <<rec>> ELSE <<>>,
                                         !.titles = ClearTitle,
                                         !.err = err]
    IN  /\ suspends => Len(pending) < MaxPending
        /\ timerInterval' = FALSE
        /\ liveIntervals' = clearInterval(timerInterval, liveIntervals)
        /\ timerStart' = ResetStart(timerStart)
        /\ timerDescription' = ""
        /\ timerDestination' = NullDest
        /\ timerPaused' = paused
        /\ timerPausedElapsed' = pausedElapsed
        /\ sess' = SessAfter(sess, NULL, paused)
        /\ IF suspends
           THEN /\ pending' = Append(pending,
                                     [rec |-> rec, file |-> res.abs,
                                      line |-> RecordLine(rec.start, rec.end)])
                /\ menuEnabled' = menuEnabled
                /\ last' = step
           ELSE IF threw
           THEN /\ pending' = pending
                /\ menuEnabled' = menuEnabled
                /\ last' = [step EXCEPT !.threw = TRUE]
           ELSE /\ pending' = pending
                /\ menuEnabled' = updateTrayMenu(tray, FALSE)
                /\ last' = [step EXCEPT
                              !.ret = IF op = "stop" THEN StopReturn ELSE NoRet,
                              !.sent = Broadcast([running |-> FALSE])]
        /\ UNCHANGED <<now, tray>>

\* mutant: stop-timer does not clear the paused state
StopTimerKeepsPaused(settings) ==
    stopTimerLogic("stop", timerPaused, timerPausedElapsed, settings)

\* stop-timer clears the paused state, then awaits stopTimerLogic
StopTimer(settings) == stopTimerLogic("stop", FALSE, 0, settings)

TrayStopClick(settings) ==
    /\ tray
    /\ menuEnabled
    /\ stopTimerLogic("tray-stop", timerPaused, timerPausedElapsed, settings)

\* the symlink-aware check of resolveVaultFilePath: probeOutside says that the
\* real path of the nearest existing parent directory of the file lies
\* outside the real path of the vault. The check throws inside the try block
\* whose catch swallows every error, so it rejects nothing.
RealpathRejects(probeOutside) == FALSE

\* mutant: the continuation resets the timer variables again
StopFinishResetsSession(i, fsOk, probeOutside) ==
    LET p == pending[i]
    IN  /\ pending' = [j \in 1..(Len(pending) - 1) |->
                          IF j < i THEN pending[j] ELSE pending[j + 1]]
        /\ menuEnabled' = updateTrayMenu(tray, FALSE)
        /\ timerInterval' = FALSE
        /\ liveIntervals' = 0
        /\ timerStart' = NULL
        /\ timerDescription' = ""
        /\ timerDestination' = NullDest
        /\ last' = [Quiet("stop-finish", StopReturn) EXCEPT
                      !.sent = Broadcast([running |-> FALSE]),
                      !.appended = IF fsOk
                                   THEN << [file |-> p.file, line |-> p.line,
                                            rec |-> p.rec] >>
                                   ELSE <<>>,
                      !.err = IF fsOk THEN "none" ELSE "FilesystemError",
                      !.escaped = fsOk /\ probeOutside]
        /\ UNCHANGED <<now, timerPaused, timerPausedElapsed, tray, sess>>

\* the rest of a suspended stopTimerLogic: the symlink-aware check of
\* resolveVaultFilePath, then mkdir and appendFile succeed or fail, then the
\* broadcast and updateTrayMenu, then its caller returns (stop-timer returns
\* {running: false}; the click handler returns nothing)
StopFinish(i, fsOk, probeOutside) ==
    LET p == pending[i]
        err == IF RealpathRejects(probeOutside) THEN "PathOutsideVault"
               ELSE IF fsOk THEN "none" ELSE "FilesystemError"
        threw == RecordErrorPropagates(err) /\ err # "none"
    IN  /\ pending' = [j \in 1..(Len(pending) - 1) |->
                          IF j < i THEN pending[j] ELSE pending[j + 1]]
        /\ menuEnabled' = IF threw THEN menuEnabled
                          ELSE updateTrayMenu(tray, timerInterval)
        /\ last' = IF threw
                   THEN [Threw("stop-finish") EXCEPT !.err = err]
                   ELSE [Quiet("stop-finish", StopReturn) EXCEPT
                           !.sent = Broadcast([running |-> FALSE]),
                           !.appended = IF err = "none"
                                        THEN << [file |-> p.file, line |-> p.line,
                                                 rec |-> p.rec] >>
                                        ELSE <<>>,
                           !.err = err,
                           !.escaped = err = "none" /\ probeOutside]
        /\ UNCHANGED <<now, timerVars, tray, sess>>

-----------------------------------------------------------------------------
(* ipcMain.handle('toggle-timer') *)

ToggleTimer(description, destination, trayOk) ==
    LET dest == DestinationAfter(destination)
    IN  IF timerInterval
        THEN \* stop branch
             /\ timerInterval' = FALSE
             /\ liveIntervals' = clearInterval(timerInterval, liveIntervals)
             /\ timerStart' = NULL
             /\ timerDescription' = ""
             /\ timerDestination' = NullDest
             /\ timerPaused' = FALSE
             /\ timerPausedElapsed' = 0
             /\ sess' = NoSess
             /\ last' = [Quiet("toggle", [running |-> FALSE]) EXCEPT
                           !.titles = ClearTitle,
                           !.sent = Broadcast([running |-> FALSE])]
             /\ UNCHANGED <<now, tray, menuEnabled, pending>>
        ELSE LET start == IF timerPaused THEN ResumeStart(timerPausedElapsed)
                          ELSE Some(now)
                 desc  == IF timerPaused THEN timerDescription
                          ELSE StartDescription(description)
                 threw == EnsureThrows(trayOk)
                 pub   == updateTrayTitle(TRUE, start, desc, FALSE,
                                          IF timerPaused THEN 0 ELSE timerPausedElapsed)
                 snap  == [running |-> TRUE, elapsed |-> now - Val(start),
                           description |-> desc]
             IN  /\ timerDestination' = dest
                 /\ timerDescription' = desc
                 /\ timerStart' = start
                 /\ timerPaused' = FALSE
                 /\ timerPausedElapsed' = IF timerPaused THEN ResetPausedElapsed(timerPausedElapsed)
                                     ELSE timerPausedElapsed
                 /\ tray' = TrayAfterEnsure(trayOk)
                 /\ timerInterval' = ~threw
                 /\ liveIntervals' = IF threw THEN liveIntervals ELSE liveIntervals + 1
                 /\ menuEnabled' = IF threw THEN menuEnabled ELSE updateTrayMenu(TRUE, TRUE)
                 /\ sess' = IF timerPaused THEN sess
                            ELSE NewSess("toggle", destination, threw)
                 /\ last' = IF threw THEN Threw("toggle")
                            ELSE [Quiet("toggle", [running |-> TRUE]) EXCEPT
                                    !.titles = pub.titles,
                                    !.sent = pub.sent \o Broadcast(snap)]
                 /\ UNCHANGED <<now, pending>>

-----------------------------------------------------------------------------
(* ipcMain.handle('toggle-pause-timer') *)

\* mutant: the pause forgets the live segment
FoldElapsedDropsSegment(pausedElapsed, start) == pausedElapsed

\* the pause: timerPausedElapsed += Date.now() - timerStart
FoldElapsed(pausedElapsed, start) ==
    IF start # NULL THEN pausedElapsed + (now - Val(start)) ELSE pausedElapsed

TogglePauseTimer(description, destination, trayOk) ==
    LET dest == DestinationAfter(destination)
        desc == IF description # "" THEN description ELSE timerDescription
    IN  IF timerInterval
        THEN \* running -> pause
             LET pe  == FoldElapsed(timerPausedElapsed, timerStart)
                 pub == updateTrayTitle(tray, NULL, desc, TRUE, pe)
             IN  /\ timerDestination' = dest
                 /\ timerDescription' = desc
                 /\ timerInterval' = FALSE
                 /\ liveIntervals' = clearInterval(timerInterval, liveIntervals)
                 /\ timerPausedElapsed' = pe
                 /\ timerStart' = NULL
                 /\ timerPaused' = TRUE
                 /\ sess' = [sess EXCEPT !.start = NULL]
                 /\ last' = [Quiet("toggle-pause", [paused |-> TRUE]) EXCEPT
                               !.titles = pub.titles,
                               !.sent = pub.sent \o
                                   Broadcast([running |-> FALSE, paused |-> TRUE,
                                              elapsed |-> pe, description |-> desc])]
                 /\ UNCHANGED <<now, tray, menuEnabled, pending>>
        ELSE IF timerPaused
        THEN \* resume from paused
             LET start == ResumeStart(timerPausedElapsed)
                 threw == EnsureThrows(trayOk)
                 pub   == updateTrayTitle(TRUE, start, desc, FALSE, 0)
             IN  /\ timerDestination' = dest
                 /\ timerDescription' = desc
                 /\ timerStart' = start
                 /\ timerPaused' = FALSE
                 /\ timerPausedElapsed' = ResetPausedElapsed(timerPausedElapsed)
                 /\ tray' = TrayAfterEnsure(trayOk)
                 /\ timerInterval' = ~threw
                 /\ liveIntervals' = IF threw THEN liveIntervals ELSE liveIntervals + 1
                 /\ menuEnabled' = IF threw THEN menuEnabled ELSE updateTrayMenu(TRUE, TRUE)
                 /\ sess' = sess
                 /\ last' = IF threw THEN Threw("toggle-pause")
                            ELSE [Quiet("toggle-pause", [paused |-> FALSE]) EXCEPT
                                    !.titles = pub.titles,
                                    !.sent = pub.sent \o
                                        Broadcast([running |-> TRUE,
                                                   elapsed |-> now - Val(start),
                                                   description |-> desc])]
                 /\ UNCHANGED <<now, pending>>
        ELSE \* neither running nor paused
             /\ timerDestination' = dest
             /\ timerDescription' = desc
             /\ last' = Quiet("toggle-pause", [paused |-> FALSE])
             /\ UNCHANGED <<now, timerInterval, timerStart, timerPaused,
                            timerPausedElapsed, liveIntervals, tray,
                            menuEnabled, pending, sess>>

-----------------------------------------------------------------------------
(* ipcMain.handle('get-timer-state'), the tick and the clock *)

\* mutant: the elapsed is reported in every phase
TimerStateAlwaysElapsed ==
    IF timerStart = NULL
    THEN [running |-> FALSE, paused |-> timerPaused, elapsed |-> timerPausedElapsed,
          description |-> timerDescription]
    ELSE [running |-> TRUE, elapsed |-> now - Val(timerStart),
          description |-> timerDescription, paused |-> FALSE]

\* the object get-timer-state returns; elapsed: undefined is no elapsed
TimerState ==
    IF timerStart = NULL
    THEN IF timerPaused
         THEN [running |-> FALSE, paused |-> TRUE, elapsed |-> timerPausedElapsed,
               description |-> timerDescription]
         ELSE [running |-> FALSE, paused |-> FALSE, description |-> timerDescription]
    ELSE [running |-> TRUE, elapsed |-> now - Val(timerStart),
          description |-> timerDescription, paused |-> FALSE]

GetTimerState ==
    /\ last' = Quiet("query", TimerState)
    /\ UNCHANGED <<now, timerVars, tray, menuEnabled, pending, sess>>

\* mutant: the tick restarts the live segment from the elapsed it publishes
TickFoldsElapsed ==
    /\ liveIntervals > 0
    /\ LET pub == updateTrayTitle(tray, timerStart, timerDescription, timerPaused,
                                  timerPausedElapsed)
       IN  last' = [Quiet("tick", NoRet) EXCEPT !.titles = pub.titles,
                                                !.sent = pub.sent]
    /\ timerPausedElapsed' = Elapsed
    /\ timerStart' = IF timerStart # NULL THEN Some(now) ELSE timerStart
    /\ UNCHANGED <<now, timerInterval, timerDescription, timerDestination,
                   timerPaused, liveIntervals, tray, menuEnabled, pending, sess>>

\* one firing of setInterval(updateTrayTitle, 1000)
Tick ==
    /\ liveIntervals > 0
    /\ LET pub == updateTrayTitle(tray, timerStart, timerDescription, timerPaused,
                                  timerPausedElapsed)
       IN  last' = [Quiet("tick", NoRet) EXCEPT !.titles = pub.titles,
                                                !.sent = pub.sent]
    /\ UNCHANGED <<now, timerVars, tray, menuEnabled, pending, sess>>

\* the clock advances; a suspended file operation completes within MaxIoDelay steps
Advance ==
    /\ now + StepMs <= MaxNow * StepMs
    /\ \A i \in 1..Len(pending) :
          now + StepMs - pending[i].rec.end <= MaxIoDelay * StepMs
    /\ now' = now + StepMs
    /\ sess' = IF timerStart # NULL THEN [sess EXCEPT !.runSum = @ + StepMs]
               ELSE IF timerPaused THEN [sess EXCEPT !.rested = TRUE]
               ELSE sess
    /\ last' = Quiet("advance", NoRet)
    /\ UNCHANGED <<timerVars, tray, menuEnabled, pending>>

\* the settings are read only when a record is to be written
SettingsChoices ==
    IF timerStart # NULL /\ timerDestination # NullDest
    THEN SettingsSet ELSE {getInitialSettings}

Next ==
    \/ \E description \in Descriptions, destination \in DestArgs,
          trayOk \in TrayChoices :
            StartTimer(description, destination, trayOk)
    \/ \E settings \in SettingsChoices : StopTimer(settings)
    \/ \E settings \in SettingsChoices : TrayStopClick(settings)
    \/ \E i \in 1..Len(pending), fsOk \in BOOLEAN, probeOutside \in BOOLEAN :
          StopFinish(i, fsOk, probeOutside)
    \/ \E description \in Descriptions, destination \in DestArgs,
          trayOk \in TrayChoices :
            ToggleTimer(description, destination, trayOk)
    \/ \E description \in Descriptions, destination \in DestArgs,
          trayOk \in TrayChoices :
            TogglePauseTimer(description, destination, trayOk)
    \/ GetTimerState
    \/ Tick
    \/ Advance

Spec == Init /\ [][Next]_vars

-----------------------------------------------------------------------------
(* Sessions that have been running for long: the titles of large elapsed     *)
(* values                                                                    *)

\* elapsed values around the places where a field of the title rolls over
ElapsedSamples ==
    { h * 3600000 + m * 60000 + sec * 1000 + frac :
        h \in {0, 1, 9, 10, 99, 100}, m \in {0, 1, 9, 10, 59},
        sec \in {0, 1, 9, 10, 59}, frac \in {0, 999} }

\* a session begun at 0 by start-timer(description), with the tray present,
\* that has been running since
InitFormat ==
    /\ now \in ElapsedSamples
    /\ timerInterval = TRUE
    /\ timerStart = Some(0)
    /\ timerDescription \in Descriptions
    /\ timerDestination = NullDest
    /\ timerPaused = FALSE
    /\ timerPausedElapsed = 0
    /\ tray = TRUE
    /\ menuEnabled = FALSE
    /\ liveIntervals = 1
    /\ pending = <<>>
    /\ sess = [start |-> Some([t1 |-> 0, by |-> "start",
                               destination |-> NullDest, threw |-> FALSE]),
               runSum |-> now, rested |-> FALSE]
    /\ last = Quiet("init", NoRet)

NextFormat ==
    \/ Tick
    \/ \E description \in Descriptions :
          TogglePauseTimer(description, NullDest, TRUE)
    \/ GetTimerState

SpecFormat == InitFormat /\ [][NextFormat]_vars

-----------------------------------------------------------------------------
(* Properties *)

Began == sess.start[1]

DailyNoteFile(t) ==
    << <<"vault">>, <<"Calendar">>, <<"date", FormatInstant(t).date, ".md">> >>

\* a finishing stopTimerLogic appends the line of its own invocation to the
\* file resolved for it, once, or nothing when the file operations fail
FinishAppendsItsLine ==
    last'.op = "stop-finish" =>
        \E i \in 1..Len(pending) :
            /\ Len(pending') = Len(pending) - 1
            /\ IF last'.err = "none"
               THEN last'.appended = << [file |-> pending[i].file,
                                         line |-> pending[i].line,
                                         rec  |-> pending[i].rec] >>
               ELSE last'.appended = <<>>

\* C1: Stop() while Running, for a session started at T1 by
\* Start(description, Daily Note) and never paused, stopped at T2, invokes the
\* Session Recorder exactly once, with (Daily Note, T1, T2), and leaves the
\* phase Idle; unless the recording fails, the line "- <T1> - <T2>" is then
\* appended exactly once, to the Daily Note output.
C1_StopRecordsDailyNote ==
    [][ /\ ( /\ last'.op = "stop"
             /\ Phase = "Running"
             /\ sess.start # NULL
             /\ Began.by = "start" /\ ~Began.threw
             /\ Began.destination = "Daily Note" )
           => /\ last'.recs = << [destination |-> "Daily Note",
                                  start |-> Began.t1, end |-> now] >>
              /\ Phase' = "Idle"
              /\ last'.appended = <<>>
              /\ \/ last'.err # "none" /\ pending' = pending
                 \/ /\ last'.err = "none"
                    /\ pending' = Append(pending,
                                    [rec  |-> last'.recs[1],
                                     file |-> DailyNoteFile(now),
                                     line |-> [start |-> FormatInstant(Began.t1),
                                               end   |-> FormatInstant(now)]])
        /\ FinishAppendsItsLine
      ]_vars

C1_Witness ==
    /\ last.op = "stop"
    /\ last.pre = "Running"
    /\ last.of.start # NULL
    /\ last.of.start[1].by = "start"
    /\ ~last.of.start[1].threw
    /\ last.of.start[1].destination = "Daily Note"
    /\ Len(last.recs) = 1
    /\ last.recs[1].end > last.recs[1].start
    /\ Len(pending) = 1
    /\ Phase = "Idle"

\* C2: Stop() while Paused invokes the Session Recorder exactly once for the
\* paused session before the session is reset to Idle.
C2_StopFromPausedRecords ==
    [][ (last'.op = "stop" /\ Phase = "Paused" /\ timerDestination # NullDest
            /\ timerPausedElapsed > 0)
           => Len(last'.recs) = 1 /\ Phase' = "Idle" ]_vars

\* C3: Toggle while Running ends the session with the semantics of Stop: the
\* Session Recorder is invoked exactly once, the session is reset to Idle and
\* {running: false} is returned.
C3_ToggleFromRunningRecords ==
    [][ (last'.op = "toggle" /\ Phase = "Running" /\ timerInterval
            /\ timerDestination # NullDest /\ Elapsed > 0)
           => /\ Len(last'.recs) = 1
              /\ Phase' = "Idle"
              /\ last'.ret = [running |-> FALSE] ]_vars

\* C4: in every phase and for every failure of the recording (no vault, a path
\* outside the vault, a failing file operation), Stop() ends with the session
\* Idle and returns {running: false}: the failure is swallowed, nothing is
\* appended and the reset is not rolled back.
C4_StopSurvivesRecordingFailure ==
    [][ /\ last'.op = "stop"
           => /\ Phase' = "Idle"
              /\ ~last'.threw
              /\ last'.appended = <<>>
              /\ last'.err # "none"
                   => last'.ret = [running |-> FALSE] /\ pending' = pending
        /\ last'.op = "stop-finish"
           => /\ UNCHANGED timerVars
              /\ ~last'.threw
              /\ last'.ret = [running |-> FALSE]
              /\ last'.err # "none" => last'.appended = <<>>
      ]_vars

C4_Witness ==
    /\ last.op = "stop"
    /\ last.pre = "Running"
    /\ last.err = "PathOutsideVault"
    /\ Len(last.recs) = 1
    /\ last.ret = [running |-> FALSE]
    /\ Phase = "Idle"

\* C5: after Stop() from any phase the session is fully reset: not running,
\* not paused, paused elapsed 0, destination null, description empty, no tick
\* scheduled; the rest of a suspended Stop changes none of it.
C5_StopResetsSession ==
    [][ /\ last'.op = "stop"
           => /\ timerStart' = NULL
              /\ ~timerPaused'
              /\ timerPausedElapsed' = 0
              /\ timerDestination' = NullDest
              /\ timerDescription' = ""
              /\ ~timerInterval'
              /\ liveIntervals' = 0
        /\ last'.op = "stop-finish" => UNCHANGED timerVars
      ]_vars

C5_Witness ==
    /\ last.op = "stop"
    /\ last.pre = "Paused"
    /\ last.of.runSum > 0
    /\ Phase = "Idle"
    /\ timerPausedElapsed = 0

\* C6: Stop() while Idle does not invoke the Session Recorder, appends
\* nothing, leaves the phase Idle and returns {running: false}.
C6_StopFromIdle ==
    [][ (last'.op = "stop" /\ Phase = "Idle")
           => /\ last'.recs = <<>>
              /\ last'.appended = <<>>
              /\ pending' = pending
              /\ Phase' = "Idle"
              /\ last'.ret = [running |-> FALSE] ]_vars

C6_Witness ==
    /\ last.op = "stop"
    /\ last.pre = "Idle"
    /\ last.recs = <<>>
    /\ last.ret = [running |-> FALSE]
    /\ Phase = "Idle"
    /\ now > 0

C8_RecordedIntervalIsRunningTime ==
    [][ (last'.op = "stop" /\ Phase = "Running" /\ timerDestination # NullDest)
           => /\ Len(last'.recs) = 1
              /\ last'.recs[1].end - last'.recs[1].start = sess.runSum ]_vars

C8_Witness ==
    /\ last.op = "stop"
    /\ last.pre = "Running"
    /\ last.of.start = NULL
    /\ last.of.rested
    /\ Len(last.recs) = 1
    /\ last.of.runSum = 2 * StepMs
    /\ last.recs[1].end - last.recs[1].start = 2 * StepMs
    /\ last.recs[1].end = 3 * StepMs

\* C9: a pause and a resume preserve the total elapsed: the elapsed reported
\* before a pause, while Paused, and right after the resume (at the same
\* instant) are equal, whichever operation resumes.
C9_PauseResumeKeepsElapsed ==
    [][ ( \/ Phase = "Running" /\ Phase' = "Paused"
          \/ Phase = "Paused" /\ Phase' \in {"Paused", "Running"} )
           => Elapsed' = Elapsed ]_vars

C9_Witness ==
    /\ last.op = "toggle"
    /\ last.pre = "Paused"
    /\ Phase = "Running"
    /\ sess.rested
    /\ Elapsed = sess.runSum
    /\ Elapsed > 0

\* C10 (as claimed): within a session timerPausedElapsed never decreases; only
\* a fresh start from Idle resets it.
C10_PausedElapsedNeverDecreases ==
    [][ (timerPausedElapsed' < timerPausedElapsed /\ Phase' # "Idle")
           => Phase = "Idle" ]_vars

\* the step begins a new session: start-timer or toggle-timer, neither
\* running nor paused
FreshStartStep == last'.op \in {"start", "toggle"} /\ ~timerInterval /\ ~timerPaused

\* C10 (amended): within a session the total elapsed (timerPausedElapsed plus
\* the live segment) never decreases; timerPausedElapsed is non-zero only
\* while Paused: every resume folds it into timerStart and resets it to 0.
C10_TotalElapsedNeverDecreases ==
    [][ /\ (Phase # "Idle" /\ Phase' # "Idle" /\ ~FreshStartStep)
           => Elapsed' >= Elapsed
        /\ (Phase = "Paused" /\ Phase' = "Running")
           => /\ timerPausedElapsed' = 0
              /\ timerStart' = Some(now - timerPausedElapsed)
        /\ timerPausedElapsed' > 0 => timerPaused'
      ]_vars

C10_Witness ==
    /\ last.op = "toggle-pause"
    /\ last.pre = "Paused"
    /\ Phase = "Running"
    /\ timerPausedElapsed = 0
    /\ Elapsed > 0
    /\ sess.rested

\* C11: between operations, timerStart is set if and only if the tick is
\* scheduled (timerInterval non-null) and the paused flag is false, also after
\* an operation that exits by an exception.
C11_StartSetIffTicking ==
    timerStart # NULL <=> (timerInterval /\ ~timerPaused)

\* C12: destination and description are unset only when the phase is Idle:
\* whenever the phase is Running or Paused, both are set.
C12_UnsetOnlyWhenIdle ==
    Phase # "Idle" => (timerDestination # NullDest /\ timerDescription # "")

\* C13: toggle-pause-timer called while Idle, with any arguments, leaves the
\* whole session state unchanged (description, destination, elapsed, tick and
\* so the phase) and returns {paused: false}.
C13_TogglePauseIdleNoOp ==
    [][ (last'.op = "toggle-pause" /\ Phase = "Idle")
           => /\ UNCHANGED timerVars
              /\ last'.ret = [paused |-> FALSE] ]_vars

\* C14: start-timer called while Running (the tick scheduled), with any
\* arguments, returns {running: true} and changes nothing: timerStart,
\* description, destination, paused elapsed and the scheduled tick stay as
\* they are, no second tick is created, nothing is published.
C14_StartWhileRunningNoOp ==
    [][ (last'.op = "start" /\ Phase = "Running" /\ timerInterval)
           => /\ UNCHANGED <<timerVars, tray, menuEnabled, pending>>
              /\ last'.ret = [running |-> TRUE]
              /\ ~last'.threw
              /\ last'.titles = <<>> /\ last'.sent = <<>> ]_vars

C14_Witness ==
    /\ last.op = "start"
    /\ last.pre = "Running"
    /\ last.ret = [running |-> TRUE]
    /\ timerInterval
    /\ liveIntervals = 1
    /\ Elapsed > 0
    /\ timerDescription = ""

\* C15: start-timer(description, destination) called while Idle, the tray
\* being there or created, begins a new session: paused elapsed 0, timerStart
\* the current instant, the description given, the destination given or, if
\* omitted, the one set before; the phase is Running, one tick is scheduled
\* and {running: true} is returned.
C15_StartFromIdle ==
    [][ \A description \in Descriptions, destination \in DestArgs,
           trayOk \in TrayChoices :
           ( /\ Phase = "Idle"
             /\ ~EnsureThrows(trayOk)
             /\ StartTimer(description, destination, trayOk) )
           => /\ timerPausedElapsed' = 0
              /\ timerStart' = Some(now)
              /\ timerDescription' = description
              /\ timerDestination' = (IF destination = NullDest
                                       THEN timerDestination ELSE destination)
              /\ ~timerPaused'
              /\ Phase' = "Running"
              /\ Elapsed' = 0
              /\ timerInterval' /\ liveIntervals' = 1
              /\ last'.ret = [running |-> TRUE] ]_vars

C15_Witness ==
    /\ last.op = "start"
    /\ last.pre = "Idle"
    /\ last.ret = [running |-> TRUE]
    /\ sess.start # NULL
    /\ sess.start[1].destination = NullDest
    /\ timerDestination = "Inbox"
    /\ timerDescription = "note"
    /\ timerStart = Some(now)
    /\ now > 0
    /\ timerInterval

\* C16 (as claimed): get-timer-state right after start-timer("x", Inbox), from
\* any prior phase, returns running, not paused, the description "x" and an
\* elapsed of about 0 (less than one tick).
C16_QueryAfterStartAnyPhase ==
    [][ \A description \in Descriptions, trayOk \in TrayChoices :
           ( /\ ~EnsureThrows(trayOk)
             /\ StartTimer(description, "Inbox", trayOk) )
           => /\ TimerState'.running
              /\ ~TimerState'.paused
              /\ TimerState'.description = description
              /\ TimerState'.elapsed < TickMs ]_vars

\* C16 (amended): get-timer-state right after start-timer("x", Inbox) returns
\* running, not paused, description "x" and elapsed 0 when the call found the
\* engine Idle; running, not paused, description "x" and the elapsed
\* accumulated so far when it found it Paused; and what it returned before
\* the call when it found it Running with the tick scheduled.
C16_QueryAfterStart ==
    [][ \A description \in Descriptions, trayOk \in TrayChoices :
           ( /\ ~EnsureThrows(trayOk)
             /\ StartTimer(description, "Inbox", trayOk) )
           => /\ Phase = "Idle"
                   => TimerState' = [running |-> TRUE, elapsed |-> 0,
                                     description |-> description, paused |-> FALSE]
              /\ Phase = "Paused"
                   => TimerState' = [running |-> TRUE, elapsed |-> timerPausedElapsed,
                                     description |-> description, paused |-> FALSE]
              /\ (Phase = "Running" /\ timerInterval)
                   => TimerState' = TimerState ]_vars

C16_Witness ==
    /\ last.op = "start"
    /\ last.pre = "Paused"
    /\ TimerState.running
    /\ ~TimerState.paused
    /\ TimerState.description = "note"
    /\ TimerState.elapsed >= TickMs
    /\ timerDestination = "Inbox"

\* C17: get-timer-state changes no state and publishes nothing, and returns
\* running = (the phase is Running), paused = (the phase is Paused), the
\* session's description, and an elapsed exactly when the phase is Running or
\* Paused, equal to timerPausedElapsed + (now - timerStart if Running, else 0).
C17_QueryIsPureRead ==
    [][ last'.op = "query"
           => /\ UNCHANGED <<now, timerVars, tray, menuEnabled, pending, sess>>
              /\ last'.titles = <<>> /\ last'.sent = <<>>
              /\ last'.recs = <<>> /\ last'.appended = <<>>
              /\ ~last'.threw
              /\ last'.ret.running = (Phase = "Running")
              /\ last'.ret.paused = (Phase = "Paused")
              /\ last'.ret.description = timerDescription
              /\ ("elapsed" \in DOMAIN last'.ret) = (Phase \in {"Running", "Paused"})
              /\ "elapsed" \in DOMAIN last'.ret
                   => last'.ret.elapsed =
                        timerPausedElapsed +
                        (IF timerStart # NULL THEN now - timerStart[1] ELSE 0) ]_vars

C17_Witness ==
    /\ last.op = "query"
    /\ last.pre = "Paused"
    /\ last.ret.paused
    /\ ~last.ret.running
    /\ last.ret.elapsed = 2 * StepMs
    /\ last.ret.description = "note"
    /\ now = 3 * StepMs

\* C18: toggle-pause-timer called while Running (the tick scheduled) pauses
\* the session: the tick is cancelled, the live segment now - timerStart is
\* added to timerPausedElapsed, timerStart is cleared, the phase becomes
\* Paused, {paused: true} is returned, and what is published for the
\* transition is the snapshot {running: false, paused: true, elapsed:
\* timerPausedElapsed}.
C18_PausePublishesPausedSnapshot ==
    [][ (last'.op = "toggle-pause" /\ Phase = "Running" /\ timerInterval)
           => /\ ~timerInterval' /\ liveIntervals' = liveIntervals - 1
              /\ timerPausedElapsed' = timerPausedElapsed + (now - timerStart[1])
              /\ timerStart' = NULL
              /\ Phase' = "Paused"
              /\ last'.ret = [paused |-> TRUE]
              /\ Len(last'.sent) >= 1
              /\ \A i \in 1..Len(last'.sent) :
                    /\ ~last'.sent[i].running
                    /\ last'.sent[i].paused
                    /\ last'.sent[i].elapsed = timerPausedElapsed' ]_vars

\* C19: resuming a Paused session is the same transition whichever operation
\* performs it: for the same description and destination arguments,
\* toggle-pause-timer, toggle-timer and start-timer called while Paused all
\* leave the session state start-timer's resume leaves (Running, timerStart =
\* now - timerPausedElapsed, the description and destination start-timer
\* takes from the arguments, one tick scheduled).
C19_ResumeSameWhicheverOperation ==
    [][ \A description \in Descriptions, destination \in DestArgs,
           trayOk \in TrayChoices :
           ( /\ Phase = "Paused"
             /\ ~EnsureThrows(trayOk)
             /\ \/ StartTimer(description, destination, trayOk)
                \/ ToggleTimer(description, destination, trayOk)
                \/ TogglePauseTimer(description, destination, trayOk) )
           => /\ Phase' = "Running"
              /\ timerStart' = Some(now - timerPausedElapsed)
              /\ ~timerPaused' /\ timerPausedElapsed' = 0
              /\ timerInterval' /\ liveIntervals' = liveIntervals + 1
              /\ timerDescription' = StartDescription(description)
              /\ timerDestination' = DestinationAfter(destination) ]_vars

\* C20: toggle-timer(description, destination) does what stop-timer does when
\* the phase is Running and what start-timer(description, destination) does
\* otherwise: the same resulting session state, the same Session Recorder
\* invocations and the same {running} returned.
C20_ToggleIsStopOrStart ==
    [][ \A description \in Descriptions, destination \in DestArgs,
           trayOk \in TrayChoices :
           ( /\ ~EnsureThrows(trayOk)
             /\ ToggleTimer(description, destination, trayOk) )
           => IF Phase = "Running" /\ timerInterval
              THEN /\ last'.recs =
                        (IF ShouldRecord(timerStart, timerDestination)
                         THEN << [destination |-> timerDestination,
                                  start |-> timerStart[1], end |-> now] >>
                         ELSE <<>>)
                   /\ timerStart' = NULL /\ ~timerInterval'
                   /\ ~timerPaused' /\ timerPausedElapsed' = 0
                   /\ timerDescription' = "" /\ timerDestination' = NullDest
                   /\ last'.ret = StopReturn
              ELSE /\ last'.recs = <<>>
                   /\ timerStart' = (IF timerPaused
                                      THEN Some(now - timerPausedElapsed)
                                      ELSE Some(now))
                   /\ timerInterval'
                   /\ ~timerPaused' /\ timerPausedElapsed' = 0
                   /\ timerDescription' = StartDescription(description)
                   /\ timerDestination' = DestinationAfter(destination)
                   /\ last'.ret = [running |-> TRUE] ]_vars

\* C21: a firing of the tick changes no session state (timerStart,
\* timerPausedElapsed, timerPaused, description, destination and the interval
\* handle stay as they are); it only computes the elapsed and publishes it.
C21_TickChangesNothing ==
    [][ last'.op = "tick"
           => /\ UNCHANGED <<now, timerVars, tray, menuEnabled, pending, sess>>
              /\ Phase' = Phase /\ Elapsed' = Elapsed
              /\ last'.recs = <<>> /\ last'.appended = <<>>
              /\ last'.ret = NoRet /\ ~last'.threw
              /\ \A i \in 1..Len(last'.sent) : last'.sent[i].elapsed = Elapsed ]_vars

C21_Witness ==
    /\ last.op = "tick"
    /\ last.pre = "Running"
    /\ Phase = "Running"
    /\ Len(last.sent) = 1
    /\ last.sent[1].elapsed = 2 * StepMs
    /\ Elapsed = 2 * StepMs
    /\ timerInterval

\* the interval bookkeeping: at most one interval is scheduled, one is
\* scheduled exactly when the handle timerInterval is set, the handle is set
\* only while timerStart is, every step that leaves Running leaves none
\* scheduled, clearing when none is scheduled changes nothing, and the tick
\* fires only while timerStart and the handle are set
IntervalBookkeeping ==
    [][ /\ liveIntervals' \in {0, 1}
        /\ (liveIntervals' = 1) = timerInterval'
        /\ timerInterval' => Phase' = "Running"
        /\ (Phase = "Running" /\ Phase' # "Running") => liveIntervals' = 0
        /\ (last'.op \in {"stop", "tray-stop"} /\ ~timerInterval)
              => liveIntervals' = liveIntervals /\ ~last'.threw
        /\ last'.op = "tick" => (Phase = "Running" /\ timerInterval)
      ]_vars

\* C22: after any sequence of Start, Stop, Toggle and TogglePause calls at
\* most one tick timer is scheduled, and one is scheduled exactly when the
\* phase is Running.
C22_TickScheduledIffRunning ==
    /\ liveIntervals \in {0, 1}
    /\ (liveIntervals = 1) <=> (Phase = "Running")

\* a step is a transition of the session when the phase or the interval
\* handle changes
Transition == Phase' # Phase \/ timerInterval' # timerInterval

\* C23: every transition made by start-timer, toggle-timer or
\* toggle-pause-timer that returns has set the tray title of the new state
\* and the last snapshot it sent to the windows is the new state; every
\* stop-timer clears the title and sends {running: false} to the windows
\* before it returns, at once or when its suspended append has finished.
C23_TransitionsPublish ==
    [][ /\ (last'.op \in {"start", "toggle", "toggle-pause"} /\ ~last'.threw
              /\ Transition)
           => /\ Len(last'.sent) >= 1
              /\ LET snap == last'.sent[Len(last'.sent)]
                 IN  /\ snap.running = (Phase' = "Running")
                     /\ Phase' # "Idle"
                          => /\ snap.elapsed = Elapsed'
                             /\ snap.description = timerDescription'
                     /\ Phase' = "Paused" => snap.paused
              /\ IF Phase' = "Idle"
                 THEN last'.titles = <<NoTitle>>
                 ELSE last'.titles = << [time |-> formatElapsed(Elapsed'),
                                         description |-> timerDescription',
                                         paused |-> Phase' = "Paused"] >>
        /\ last'.op \in {"stop", "tray-stop"}
           => /\ last'.titles = ClearTitle
              /\ Phase' = "Idle" \/ last'.op = "tray-stop"
              /\ IF Len(pending') > Len(pending)
                 THEN last'.ret = NoRet /\ last'.sent = <<>>
                 ELSE /\ last'.sent = << [running |-> FALSE] >>
                      /\ last'.op = "stop" => last'.ret = StopReturn
        /\ last'.op = "stop-finish"
           => /\ Len(pending') < Len(pending)
              /\ last'.sent = << [running |-> FALSE] >>
              /\ last'.ret = StopReturn
      ]_vars

C23_Witness ==
    /\ last.op = "stop-finish"
    /\ last.sent = << [running |-> FALSE] >>
    /\ last.ret = StopReturn
    /\ Len(last.appended) = 1
    /\ Phase = "Idle"
    /\ pending = <<>>

\* C24: when the tray cannot be created during start-timer, toggle-timer or
\* toggle-pause-timer, the handler does not throw and the transition
\* completes: a phase that became Running has its tick scheduled.
C24_SurfaceFailureTolerated ==
    [][ last'.op \in {"start", "toggle", "toggle-pause"}
           => /\ ~last'.threw
              /\ Phase' = "Running" => timerInterval' ]_vars

\* the snapshot sent with a title: the same elapsed, formatted, the same
\* description and the same paused flag
SentWithTitle(title, snap) ==
    /\ title.time = formatElapsed(snap.elapsed)
    /\ title.description = snap.description
    /\ title.paused = snap.paused

C27_RecorderUsesSnapshot ==
    [][ /\ (last'.op \in EndOps /\ Len(pending') > Len(pending))
           => /\ timerStart # NULL
              /\ pending' = Append(pending,
                     [rec  |-> [destination |-> timerDestination,
                                start |-> Val(timerStart), end |-> now],
                      file |-> pending'[Len(pending')].file,
                      line |-> RecordLine(Val(timerStart), now)])
        /\ last'.op \notin (EndOps \cup {"stop-finish"}) => pending' = pending
        /\ last'.op = "stop-finish"
           => /\ FinishAppendsItsLine
              /\ UNCHANGED <<now, timerVars, tray, sess>>
              /\ Phase' = Phase /\ Elapsed' = Elapsed
      ]_vars

C27_Witness ==
    /\ last.op = "stop-finish"
    /\ Len(last.appended) = 1
    /\ last.appended[1].rec.destination = "Inbox"
    /\ last.appended[1].rec.start = 0
    /\ last.appended[1].rec.end = StepMs
    /\ last.appended[1].line = RecordLine(0, StepMs)
    /\ Phase = "Running"
    /\ timerInterval
    /\ liveIntervals = 1
    /\ timerStart = Some(StepMs)
    /\ timerDestination = "Daily Note"
    /\ timerDescription = "note"
    /\ now = StepMs

InboxFile == << <<"vault">>, <<"Inbox">>, <<"Inbox.md">> >>

\* C28: every line is appended to the output of its session's destination
\* (Inbox to the inbox output, Daily Note to the daily-note output), to a
\* file inside the vault, and never to a file whose nearest existing parent
\* directory really lies, through a symbolic link, outside the vault.
C28_AppendsOnlyInsideVault ==
    [][ \A k \in 1..Len(last'.appended) :
           LET a == last'.appended[k]
           IN  /\ a.file = IF a.rec.destination = "Inbox" THEN InboxFile
                           ELSE DailyNoteFile(a.rec.end)
               /\ IsPrefix(<< VaultRoot >>, a.file)
               /\ ~last'.escaped ]_vars

\* what holds of every append: the file is the output of the destination
\* and lies lexically inside the vault
AppendsLexicallyInsideVault ==
    [][ \A k \in 1..Len(last'.appended) :
           LET a == last'.appended[k]
           IN  /\ a.file = IF a.rec.destination = "Inbox" THEN InboxFile
                           ELSE DailyNoteFile(a.rec.end)
               /\ IsPrefix(<< VaultRoot >>, a.file) ]_vars

HasElapsed(r) == "elapsed" \in DOMAIN r

\* C29: in every reachable state timerPausedElapsed >= 0 and, while
\* timerStart is set, timerStart <= now; so the elapsed get-timer-state
\* returns and every elapsed published is non-negative, and every record
\* made has start <= end.
C29_ElapsedNonNegative ==
    /\ timerPausedElapsed >= 0
    /\ timerStart # NULL => timerStart[1] <= now
    /\ Elapsed >= 0
    /\ HasElapsed(TimerState) => TimerState.elapsed >= 0
    /\ HasElapsed(last.ret) => last.ret.elapsed >= 0
    /\ \A i \in 1..Len(last.sent) :
          HasElapsed(last.sent[i]) => last.sent[i].elapsed >= 0
    /\ \A i \in 1..Len(last.recs) : last.recs[i].start <= last.recs[i].end
    /\ \A i \in 1..Len(pending) : pending[i].rec.start <= pending[i].rec.end
    /\ \A i \in 1..Len(last.appended) :
          last.appended[i].rec.start <= last.appended[i].rec.end

C29_Witness ==
    /\ last.op = "stop"
    /\ last.pre = "Running"
    /\ last.of.rested
    /\ Len(last.recs) = 1
    /\ last.recs[1].start = StepMs
    /\ last.recs[1].end = 3 * StepMs
    /\ timerPausedElapsed = 0

\* C30: the tray menu's Stop item, invoked in any phase in which it is
\* enabled, ends the session as stop-timer does: afterwards the phase is
\* Idle, timerPaused is false and timerPausedElapsed is 0.
C30_TrayStopEndsSession ==
    [][ last'.op = "tray-stop"
           => /\ Phase' = "Idle"
              /\ ~timerPaused'
              /\ timerPausedElapsed' = 0 ]_vars

RECURSIVE NumberOf(_)
\* the number a sequence of decimal digits reads as
NumberOf(digits) ==
    IF Len(digits) = 0 THEN 0
    ELSE 10 * NumberOf(SubSeq(digits, 1, Len(digits) - 1)) + digits[Len(digits)]

\* a field padded with zeros to two digits: decimal digits, at least two, and
\* no leading zero beyond the second-last place
TwoDigitPadded(field) ==
    /\ Len(field) >= 2
    /\ \A i \in 1..Len(field) : field[i] \in 0..9
    /\ Len(field) > 2 => field[1] # 0

\* C26: every title set for an elapsed value ms is "<time> - <description>"
\* where, with s = floor(ms / 1000), <time> has the fields MM:SS when
\* floor(s / 3600) = 0 and HH:MM:SS otherwise, each field zero-padded to two
\* digits, minutes and seconds in 0..59 and hours * 3600 + minutes * 60 +
\* seconds = s; " (paused)" is appended exactly when the phase is Paused.
C26_TitleFormat ==
    [][ \A k \in 1..Len(last'.titles) :
           LET title == last'.titles[k]
               time  == title.time
               n     == Len(time)
               s     == Elapsed' \div 1000
           IN  \* tray.setTitle('') shows no elapsed value
               title # NoTitle
                 => /\ n = IF s \div 3600 = 0 THEN 2 ELSE 3
                    /\ \A f \in 1..n : TwoDigitPadded(time[f])
                    /\ Len(time[n - 1]) = 2 /\ Len(time[n]) = 2
                    /\ NumberOf(time[n - 1]) \in 0..59
                    /\ NumberOf(time[n]) \in 0..59
                    /\ (IF n = 3 THEN NumberOf(time[1]) ELSE 0) * 3600
                         + NumberOf(time[n - 1]) * 60 + NumberOf(time[n]) = s
                    /\ title.description = timerDescription'
                    /\ title.paused = (Phase' = "Paused") ]_vars

C26_Witness ==
    /\ last.op = "toggle-pause"
    /\ Phase = "Paused"
    /\ Elapsed = 3600000 + 9000 + 999
    /\ last.titles = << [time |-> << <<0, 1>>, <<0, 0>>, <<0, 9>> >>,
                         description |-> "note", paused |-> TRUE] >>

\* the paused field of a snapshot; a snapshot sent without one reads as not
\* paused
SnapPaused(snap) == IF "paused" \in DOMAIN snap THEN snap.paused ELSE FALSE

\* C31: every snapshot sent to the windows agrees with the phase at the moment
\* it is sent: running is true exactly when the phase is Running and paused
\* is true exactly when the phase is Paused.
C31_SnapshotAgreesWithPhase ==
    [][ \A i \in 1..Len(last'.sent) :
           /\ last'.sent[i].running = (Phase' = "Running")
           /\ SnapPaused(last'.sent[i]) = (Phase' = "Paused") ]_vars

\* C32: once a session started while an earlier stop awaited its append is
\* Running and has published its running snapshot, the earlier stop sends no
\* {running: false} to the windows.
C32_NoStaleStopSnapshot ==
    [][ (last'.op = "stop-finish" /\ Phase = "Running" /\ timerInterval)
           => \A i \in 1..Len(last'.sent) : last'.sent[i].running ]_vars

\* C33: a session is recorded at most once. A stop makes at most one record,
\* only of a session whose timerStart is set, and that session is over when
\* the stop first awaits (timerStart is null and the phase Idle), so an
\* overlapping stop-timer or tray Stop finds nothing to record; records that
\* await their append are of sessions that followed one another; each
\* continuation appends at most the one line of its own record.
C33_RecordedAtMostOnce ==
    [][ /\ Len(last'.recs) <= 1
        /\ Len(last'.recs) = 1
           => /\ last'.op \in EndOps
              /\ timerStart # NULL
              /\ last'.recs[1].start = Val(timerStart)
              /\ timerStart' = NULL
              /\ Phase' = "Idle"
              /\ sess' = NoSess
        /\ (last'.op \in EndOps /\ timerStart = NULL)
           => last'.recs = <<>> /\ pending' = pending
        /\ \A i, j \in 1..Len(pending') :
              i < j => pending'[i].rec.end <= pending'[j].rec.start
        /\ Len(last'.appended) <= 1
        /\ Len(last'.appended) = 1
           => /\ last'.op = "stop-finish"
              /\ FinishAppendsItsLine
      ]_vars

C33_Witness ==
    /\ last.op \in EndOps
    /\ last.pre = "Idle"
    /\ last.recs = <<>>
    /\ Len(pending) = 1
    /\ pending[1].rec.end = now
    /\ pending[1].rec.start < now
    /\ Phase = "Idle"

\* C34: in every reachable state the interval handle is not set while
\* timerPaused is true, timerStart is not set while timerPaused is true, and
\* timerPausedElapsed is non-zero only while timerPaused is true.
C34_RunningExcludesPaused ==
    /\ ~(timerInterval /\ timerPaused)
    /\ ~(timerStart # NULL /\ timerPaused)
    /\ timerPausedElapsed # 0 => timerPaused

C34_Witness ==
    /\ last.op \in {"start", "toggle", "toggle-pause"}
    /\ last.pre = "Paused"
    /\ Phase = "Running"
    /\ timerInterval
    /\ ~timerPaused
    /\ timerPausedElapsed = 0
    /\ Elapsed > 0

\* C35: after every timer operation that completes, the tray menu's item is
\* 'Stop Timer', enabled, exactly when the timer is Running.
C35_MenuReflectsPhase ==
    [][ ( /\ last'.op \in {"start", "stop", "stop-finish", "toggle", "toggle-pause"}
          /\ last'.ret # NoRet
          /\ tray' )
           => menuEnabled' = (Phase' = "Running") ]_vars

\* C36: stop-timer resets every timer variable in the step in which it is
\* dispatched, before stopTimerLogic first awaits: the state other handlers
\* find while the append is pending is the reset one, and the continuation
\* assigns none of them.
C36_StopResetIsAtomic ==
    [][ /\ last'.op = "stop"
           => /\ ~timerInterval' /\ liveIntervals' = 0
              /\ timerStart' = NULL
              /\ timerDescription' = ""
              /\ timerDestination' = NullDest
              /\ ~timerPaused'
              /\ timerPausedElapsed' = 0
        /\ last'.op = "stop-finish" => UNCHANGED timerVars
      ]_vars

C36_Witness ==
    /\ last.op = "stop"
    /\ last.pre = "Running"
    /\ last.ret = NoRet
    /\ Len(pending) = 1
    /\ ~timerInterval
    /\ timerStart = NULL
    /\ timerDescription = ""
    /\ timerDestination = NullDest
    /\ ~timerPaused
    /\ timerPausedElapsed = 0

====
